---- MODULE Spec2Model ----
(***************************************************************************)
(* A model of src/src/app/page.tsx: the ChatPage component.                *)
(*                                                                         *)
(* State: the five useState slots (messages, input, file, isLoading,       *)
(* error) and the activations of the async handler handleSendMessage, one  *)
(* record per accepted call, holding the values the handler closed over    *)
(* and its locals.  An action is one run-to-completion step of the event   *)
(* loop: an event handler up to its first await, or the continuation of    *)
(* one await.  State set in a step is rendered before the next event is    *)
(* delivered, so a handler closes over the state as it is when its event   *)
(* fires.                                                                  *)
(*                                                                         *)
(* Text is a sequence of one-element strings.  Characters that vary are    *)
(* single characters; a fixed literal of the source is one element.  On    *)
(* the wire the body of an event is abbreviated to three tokens:           *)
(*   "{T:"  for  {"candidates":[{"content":{"parts":[{"text":"             *)
(*   ":T}"  for  "}]}}]}                                                   *)
(*   "{M}"  for an event object that has no candidates (metadata only)     *)
(* and the two bytes "C3" "A9" are the UTF-8 encoding of one character.    *)
(***************************************************************************)
EXTENDS Integers, Sequences, FiniteSets, TLC

(* ------------------------------ bounds ---------------------------------- *)

\* accepted calls of handleSendMessage in one run
MaxSubmits == 2

\* what the network delivers in one run: every settled fetch and every
\* line of a response body counts one
MaxNet == 3

(* ------------------------------ text ------------------------------------ *)

Whitespace == {" ", "\r", "\n", "\t"}

\* String.prototype.trim
Trim(s) ==
  LET keep == {i \in 1..Len(s) : s[i] \notin Whitespace}
  IN  IF keep = {} THEN <<>>
      ELSE LET lo == CHOOSE i \in keep : \A j \in keep : i <= j
               hi == CHOOSE i \in keep : \A j \in keep : j <= i
           IN  SubSeq(s, lo, hi)

\* String.prototype.startsWith
StartsWith(s, p) == Len(s) >= Len(p) /\ SubSeq(s, 1, Len(p)) = p

\* String.prototype.substring(n), n counted in characters from 0
Substring(s, n) == SubSeq(s, n + 1, Len(s))

\* String.prototype.split('\n')
RECURSIVE Split(_)
Split(s) ==
  LET nl == {i \in 1..Len(s) : s[i] = "\n"}
  IN  IF nl = {} THEN <<s>>
      ELSE LET i == CHOOSE i \in nl : \A j \in nl : i <= j
           IN  <<SubSeq(s, 1, i - 1)>> \o Split(SubSeq(s, i + 1, Len(s)))

\* Array.prototype.join(" ") over strings
RECURSIVE Join(_)
Join(items) ==
  IF Len(items) = 0 THEN <<>>
  ELSE IF Len(items) = 1 THEN items[1]
  ELSE items[1] \o <<" ">> \o Join(Tail(items))

\* new TextDecoder().decode(value): every call decodes its bytes on their
\* own, so a multi-byte character cut by the end of the chunk, or a
\* continuation byte with no lead byte before it, becomes U+FFFD
RECURSIVE TextDecode(_)
TextDecode(b) ==
  IF Len(b) = 0 THEN <<>>
  ELSE IF b[1] = "C3"
       THEN IF Len(b) >= 2 /\ b[2] = "A9"
            THEN <<"e^">> \o TextDecode(SubSeq(b, 3, Len(b)))
            ELSE <<"U+FFFD">> \o TextDecode(Tail(b))
  ELSE IF b[1] = "A9" THEN <<"U+FFFD">> \o TextDecode(Tail(b))
  ELSE <<b[1]>> \o TextDecode(Tail(b))

\* characters a text fragment is made of
TextChars == {"x", "e^", "U+FFFD"}

\* JSON.parse followed by parsed.candidates?.[0]?.content?.parts?.[0]?.text:
\* threw is JSON.parse raising SyntaxError; textPart is <<>> when the path is
\* absent (undefined) or the text is the empty string, both falsy
JSONParse(jsonStr) ==
  IF jsonStr = <<"{M}">>
  THEN [threw |-> FALSE, textPart |-> <<>>]
  ELSE IF /\ Len(jsonStr) >= 2
          /\ jsonStr[1] = "{T:"
          /\ jsonStr[Len(jsonStr)] = ":T}"
          /\ \A i \in 2..(Len(jsonStr) - 1) : jsonStr[i] \in TextChars
  THEN [threw |-> FALSE, textPart |-> SubSeq(jsonStr, 2, Len(jsonStr) - 1)]
  ELSE [threw |-> TRUE, textPart |-> <<>>]

(* ------------------------------ data ------------------------------------ *)

\* file === null
NoFile == [name |-> "", type |-> "", pages |-> <<>>]

\* what the file picker can hand over: a PDF of two pages (each page a
\* sequence of text items) and a file of another type
Files ==
  { [name |-> "a.pdf", type |-> "application/pdf",
     pages |-> << << <<"p">>, <<"q">> >>, << <<"r">> >> >>],
    [name |-> "n.txt", type |-> "text/plain", pages |-> <<>>] }

\* what the user can type
Inputs == { <<>>, <<" ">>, <<"h", " ">> }

\* error === null
NoError == <<>>

\* the literal of line 209
Prefix == <<"d", "a", "t", "a", ":", " ">>

\* the lines a response body is made of, as bytes, without the final "\n"
WireLines ==
  { Prefix \o <<"{T:", "x", ":T}", "\r">>,
    Prefix \o <<"{T:", "C3", "A9", ":T}">>,
    Prefix \o <<"{T:", "x">>,
    Prefix \o <<"{M}">>,
    Prefix \o <<"{T:", ":T}">>,
    Prefix,
    <<>> }

RECURSIVE WiresOf(_)
WiresOf(n) ==
  IF n = 0 THEN { <<>> }
  ELSE LET shorter == WiresOf(n - 1)
       IN  shorter \cup { w \o l \o <<"\n">> : w \in shorter, l \in WireLines }

\* the response bodies of up to n lines, each ended by "\n"; a body
\* follows a settled fetch, so it has fewer than MaxNet lines
Wires == [n \in 0..(MaxNet - 1) |-> WiresOf(n)]

\* what reader.read() can resolve to next, when read is what it has given
\* so far: the bytes up to any later point of a body that starts so
Continuations(read, n) ==
  UNION { { SubSeq(w, Len(read) + 1, m) : m \in (Len(read) + 1)..Len(w) } :
          w \in {v \in Wires[n] : StartsWith(v, read)} }

\* the beginnings of the bodies of up to n lines
Beginnings(n) == UNION { { SubSeq(w, 1, m) : m \in 0..Len(w) } : w \in Wires[n] }

\* Continuations, tabulated
Reads == [n \in 0..(MaxNet - 1) |-> [read \in Beginnings(n) |-> Continuations(read, n)]]

\* the number of "\n" in bytes
NewLines(b) == Cardinality({i \in 1..Len(b) : b[i] = "\n"})

\* what response.json() gives for an error response: it rejects (decodes
\* FALSE), or resolves to an object whose error.message is message (<<>>
\* when there is none)
ErrorBodies ==
  { [decodes |-> FALSE, message |-> <<>>],
    [decodes |-> TRUE, message |-> <<>>],
    [decodes |-> TRUE, message |-> <<"API key not valid">>] }

\* the responses fetch can resolve to, without the body's bytes
Responses ==
  { [ok |-> TRUE, status |-> "200", hasBody |-> TRUE,
     errorBody |-> [decodes |-> FALSE, message |-> <<>>]],
    [ok |-> TRUE, status |-> "204", hasBody |-> FALSE,
     errorBody |-> [decodes |-> FALSE, message |-> <<>>]] }
  \cup { [ok |-> FALSE, status |-> "400", hasBody |-> TRUE, errorBody |-> b] :
         b \in ErrorBodies }

NoResponse ==
  [ok |-> FALSE, status |-> "", hasBody |-> FALSE,
   errorBody |-> [decodes |-> FALSE, message |-> <<>>]]

\* a rejection: isError is `err instanceof Error`
Err(m) == [isError |-> TRUE, message |-> m]
NotAnError == [isError |-> FALSE, message |-> <<>>]

(* ------------------------------ state ----------------------------------- *)

VARIABLES
  messages,   \* useState<Message[]>, line 39
  input,      \* useState<string>, line 46
  file,       \* useState<File | null>, line 47
  isLoading,  \* useState<boolean>, line 48
  error,      \* useState<string | null>, line 49
  calls,      \* the accepted calls of handleSendMessage, in order of acceptance
  requests,   \* the bodies handed to fetch, in order (their `contents`)
  nextId,     \* the ids crypto.randomUUID() has not given out yet
  netUsed,    \* what the network has delivered so far, at most MaxNet
  received,   \* for every call, the bytes read from its response body while
              \* its reader is open
  rejected    \* the last step was a call of handleSendMessage that returned
              \* at line 126

vars ==
  <<messages, input, file, isLoading, error, calls, requests, nextId,
    netUsed, received, rejected>>

\* the message the component starts with, lines 40-44
Greeting == [id |-> 1, role |-> "assistant", content |-> <<"Hello!">>]

Init ==
  /\ messages = <<Greeting>>
  /\ input = <<>>
  /\ file = NoFile
  /\ isLoading = FALSE
  /\ error = NoError
  /\ calls = <<>>
  /\ requests = <<>>
  /\ nextId = 2
  /\ netUsed = 0
  /\ received = <<>>
  /\ rejected = FALSE

(* ------------------- handleSendMessage: pure parts ---------------------- *)

\* the guard of line 126 without its test of isLoading
Rejects_notBusy(in, f, loading) == Trim(in) = <<>> /\ f = NoFile

\* the guard of line 126 without its test of file
Rejects_textOnly(in, f, loading) == Trim(in) = <<>> \/ loading

\* line 126: the condition under which the handler returns at once
Rejects(in, f, loading) == (Trim(in) = <<>> /\ f = NoFile) \/ loading

\* line 152: the content of the user message
UserContent(in, f) ==
  IF Trim(in) # <<>> THEN Trim(in) ELSE <<"File uploaded: ", f.name>>

\* lines 160-163: the text sent for the new user turn
ApiRequestText(in, f, pdfText) ==
  IF pdfText # <<>>
  THEN Trim(in) \o <<"\n\n--- Content from ", f.name, " ---\n">> \o pdfText
  ELSE Trim(in)

\* line 172 giving every message the role of the user
RoleToWire_allUser(role) == "user"

\* line 172
RoleToWire(role) == IF role = "assistant" THEN "model" ELSE "user"

\* lines 170-179: parts: [{ text }] is written as the field text
ChatHistory(msgs, apiRequestText) ==
  [i \in 1..Len(msgs) |->
     [role |-> RoleToWire(msgs[i].role), text |-> msgs[i].content]]
  \o <<[role |-> "user", text |-> apiRequestText]>>

\* lines 141 and 235: fallback is the literal used when err is no Error
ErrorMessage(err, fallback) == IF err.isError THEN err.message ELSE fallback

\* line 193: the Error thrown for a response that is not ok or has no body,
\* once response.json() has resolved to errorBody
ApiError(status, errorBody) ==
  Err(<<"API error: ", status, " - ">>
      \o (IF errorBody.message # <<>> THEN errorBody.message
          ELSE <<"Unknown error">>))

\* line 237: the message appended by the catch block
FailureTurn(id, errorMessage) ==
  [id |-> id, role |-> "assistant",
   content |-> <<"Sorry, something went wrong: ">> \o errorMessage]

(* ------------------- the stream loop, lines 205-232 --------------------- *)

\* The state the loop works on.  messages is the store the queued updaters
\* of setMessages apply to; the updaters of one chunk run in order before
\* anything else reads the store.  delivered lists the fragments extracted.
StreamState(msgs, ai, id, next, delivered) ==
  [messages |-> msgs, aiResponseContent |-> ai, assistantMessageId |-> id,
   nextId |-> next, delivered |-> delivered]

\* lines 216-226 writing the fragment, not the accumulated text, into the
\* message
CommitFragment_fragmentOnly(st, textPart) ==
  LET ai == st.aiResponseContent \o textPart
  IN  IF st.assistantMessageId = 0
      THEN [st EXCEPT
              !.aiResponseContent = ai,
              !.assistantMessageId = st.nextId,
              !.nextId = st.nextId + 1,
              !.delivered = Append(st.delivered, textPart),
              !.messages = Append(st.messages,
                 [id |-> st.nextId, role |-> "assistant", content |-> textPart])]
      ELSE [st EXCEPT
              !.aiResponseContent = ai,
              !.delivered = Append(st.delivered, textPart),
              !.messages =
                 [i \in 1..Len(st.messages) |->
                    IF st.messages[i].id = st.assistantMessageId
                    THEN [st.messages[i] EXCEPT !.content = textPart]
                    ELSE st.messages[i]]]

\* lines 216-226 with the test of line 223 on the role, not on the id
CommitFragment_updatesByRole(st, textPart) ==
  LET ai == st.aiResponseContent \o textPart
  IN  IF st.assistantMessageId = 0
      THEN [st EXCEPT
              !.aiResponseContent = ai,
              !.assistantMessageId = st.nextId,
              !.nextId = st.nextId + 1,
              !.delivered = Append(st.delivered, textPart),
              !.messages = Append(st.messages,
                 [id |-> st.nextId, role |-> "assistant", content |-> ai])]
      ELSE [st EXCEPT
              !.aiResponseContent = ai,
              !.delivered = Append(st.delivered, textPart),
              !.messages =
                 [i \in 1..Len(st.messages) |->
                    IF st.messages[i].role = "assistant"
                    THEN [st.messages[i] EXCEPT !.content = ai]
                    ELSE st.messages[i]]]

\* lines 216-226, textPart truthy: assistantMessageId 0 is null
CommitFragment(st, textPart) ==
  LET ai == st.aiResponseContent \o textPart
  IN  IF st.assistantMessageId = 0
      THEN [st EXCEPT
              !.aiResponseContent = ai,
              !.assistantMessageId = st.nextId,
              !.nextId = st.nextId + 1,
              !.delivered = Append(st.delivered, textPart),
              !.messages = Append(st.messages,
                 [id |-> st.nextId, role |-> "assistant", content |-> ai])]
      ELSE [st EXCEPT
              !.aiResponseContent = ai,
              !.delivered = Append(st.delivered, textPart),
              !.messages =
                 [i \in 1..Len(st.messages) |->
                    IF st.messages[i].id = st.assistantMessageId
                    THEN [st.messages[i] EXCEPT !.content = ai]
                    ELSE st.messages[i]]]

\* lines 209-231 without the test of line 216
ProcessLine_noTextTest(st, line) ==
  IF StartsWith(line, Prefix)
  THEN LET jsonStr == Trim(Substring(line, 6))
       IN  IF jsonStr # <<>>
           THEN LET parsed == JSONParse(jsonStr)
                IN  IF parsed.threw THEN st
                    ELSE CommitFragment(st, parsed.textPart)
           ELSE st
  ELSE st

\* lines 209-231: the body of the for loop
ProcessLine(st, line) ==
  IF StartsWith(line, Prefix)
  THEN LET jsonStr == Trim(Substring(line, 6))
       IN  IF jsonStr # <<>>
           THEN LET parsed == JSONParse(jsonStr)
                IN  IF parsed.threw THEN st
                    ELSE IF parsed.textPart # <<>>
                         THEN CommitFragment(st, parsed.textPart)
                         ELSE st
           ELSE st
  ELSE st

\* line 208: for (const line of lines)
RECURSIVE ProcessLines(_, _)

\* the loop of line 208 left at the first record JSON.parse throws on, as
\* it is without the try of line 212
ProcessLines_leftAtThrow(st, lines) ==
  IF Len(lines) = 0 THEN st
  ELSE IF /\ StartsWith(Head(lines), Prefix)
          /\ JSONParse(Trim(Substring(Head(lines), 6))).threw
       THEN st
  ELSE ProcessLines(ProcessLine(st, Head(lines)), Tail(lines))

ProcessLines(st, lines) ==
  IF Len(lines) = 0 THEN st
  ELSE ProcessLines(ProcessLine(st, Head(lines)), Tail(lines))

\* lines 205-206 and the loop: one chunk of bytes
ProcessChunk(st, value) == ProcessLines(st, Split(TextDecode(value)))

(* ------------------- handleSendMessage: activations --------------------- *)

\* One accepted call.  input, file and messages are the values of the
\* render the handler closed over.  pc is the await the call is suspended
\* at ("extract", "fetch", "errbody", "read") or "done".  page 0 is parsePdf
\* before getDocument has resolved.  before (the store as it was when the
\* user message was appended), request (the index of its body in requests),
\* budget (the lines its response body may have), delivered (the fragments
\* committed) and outcome record what happened to it.
NewCall(in, f, msgs) ==
  [pc |-> "start", input |-> in, file |-> f, messages |-> msgs,
   page |-> 0, fullText |-> <<>>,
   userId |-> 0, before |-> <<>>, request |-> 0,
   response |-> NoResponse, budget |-> 0,
   aiResponseContent |-> <<>>, assistantMessageId |-> 0, delivered |-> <<>>,
   outcome |-> ""]

\* A call that has returned keeps its record until the next call is
\* accepted; then its locals are gone and only the ids it gave out, the
\* index of its request and its outcome are kept.
Returned(c) ==
  IF c.pc = "done"
  THEN [NewCall(<<>>, NoFile, <<>>) EXCEPT
          !.pc = "done", !.userId = c.userId, !.request = c.request,
          !.assistantMessageId = c.assistantMessageId, !.outcome = c.outcome]
  ELSE c

Earlier == [k \in 1..Len(calls) |-> Returned(calls[k])]

\* lines 149-189, up to the await of fetch: what the call looks like then
Dispatched(c) ==
  [c EXCEPT !.pc = "fetch", !.userId = nextId, !.before = messages,
            !.request = Len(requests) + 1]

\* lines 149-189 with the history of line 171 read from the store after
\* the append of line 156
Dispatch_afterAppend(c, pdfText) ==
  /\ messages' = Append(messages,
        [id |-> nextId, role |-> "user", content |-> UserContent(c.input, c.file)])
  /\ nextId' = nextId + 1
  /\ input' = <<>>
  /\ file' = NoFile
  /\ requests' = Append(requests,
        ChatHistory(messages', ApiRequestText(c.input, c.file, pdfText)))

\* lines 149-189 with the user message put in front of the store at line 156
Dispatch_userTurnFirst(c, pdfText) ==
  /\ messages' =
        <<[id |-> nextId, role |-> "user", content |-> UserContent(c.input, c.file)]>>
        \o messages
  /\ nextId' = nextId + 1
  /\ input' = <<>>
  /\ file' = NoFile
  /\ requests' = Append(requests,
        ChatHistory(c.messages, ApiRequestText(c.input, c.file, pdfText)))

\* lines 149-189, up to the await of fetch: what it does to the state
Dispatch(c, pdfText) ==
  /\ messages' = Append(messages,
        [id |-> nextId, role |-> "user", content |-> UserContent(c.input, c.file)])
  /\ nextId' = nextId + 1
  /\ input' = <<>>
  /\ file' = NoFile
  /\ requests' = Append(requests,
        ChatHistory(c.messages, ApiRequestText(c.input, c.file, pdfText)))

\* the submit event with line 129 moved before the guard of line 126
Submit_clearsErrorFirst ==
  /\ UNCHANGED netUsed
  /\ error' = NoError
  /\ IF Rejects(input, file, isLoading)
     THEN /\ rejected' = TRUE
          /\ UNCHANGED <<messages, input, file, isLoading, calls,
                         requests, nextId, received>>
     ELSE /\ Len(calls) < MaxSubmits
          /\ received' = Append(received, <<>>)
          /\ rejected' = FALSE
          /\ isLoading' = TRUE
          /\ LET c == NewCall(input, file, messages)
             IN  IF file # NoFile
                 THEN /\ calls' = Append(Earlier, [c EXCEPT !.pc = "extract"])
                      /\ UNCHANGED <<messages, input, file, requests, nextId>>
                 ELSE /\ Dispatch(c, <<>>)
                      /\ calls' = Append(Earlier, Dispatched(c))

\* lines 124-146 without a file, 124-136 with one: the submit event
Submit ==
  /\ UNCHANGED netUsed
  /\ IF Rejects(input, file, isLoading)
     THEN /\ rejected' = TRUE
          /\ UNCHANGED <<messages, input, file, isLoading, error, calls,
                         requests, nextId, received>>
     ELSE /\ Len(calls) < MaxSubmits
          /\ received' = Append(received, <<>>)
          /\ rejected' = FALSE
          /\ isLoading' = TRUE
          /\ error' = NoError
          /\ LET c == NewCall(input, file, messages)
             IN  IF file # NoFile
                 THEN /\ calls' = Append(Earlier, [c EXCEPT !.pc = "extract"])
                      /\ UNCHANGED <<messages, input, file, requests, nextId>>
                 ELSE /\ Dispatch(c, <<>>)
                      /\ calls' = Append(Earlier, Dispatched(c))

\* the rejections parsePdf can end in: before the first page (lines 95, 101,
\* 105, 118; the event of line 118 is no Error) and at a page (108, 109)
ExtractErrors(page) ==
  IF page = 0
  THEN { Err(<<"PDF.js library is not loaded yet.">>), NotAnError }
  ELSE { Err(<<"page failed">>) }

\* lines 94-105: the file is read and getDocument resolves
ExtractLoad(k) ==
  /\ calls[k].pc = "extract"
  /\ calls[k].page = 0
  /\ calls' = [calls EXCEPT ![k].page = 1]
  /\ rejected' = FALSE /\ UNCHANGED received
  /\ UNCHANGED <<messages, input, file, isLoading, error, requests, nextId, netUsed>>

\* lines 108-113: page i resolves; after the last one parsePdf resolves and
\* the handler goes on to line 137 and runs to the await of fetch
ExtractPage(k) ==
  LET c == calls[k]
      fullText == c.fullText \o Join(c.file.pages[c.page]) \o <<"\n">>
  IN  /\ c.pc = "extract"
      /\ c.page >= 1
      /\ rejected' = FALSE /\ UNCHANGED received
      /\ IF c.page < Len(c.file.pages)
         THEN /\ calls' = [calls EXCEPT ![k].page = c.page + 1,
                                        ![k].fullText = fullText]
              /\ UNCHANGED <<messages, input, file, isLoading, error,
                             requests, nextId, netUsed>>
         ELSE /\ Dispatch(c, fullText)
              /\ calls' = [calls EXCEPT
                   ![k] = Dispatched([c EXCEPT !.fullText = fullText])]
              /\ UNCHANGED <<isLoading, error, netUsed>>

\* lines 140-145 without line 143
ExtractFail_staysBusy(k) ==
  /\ calls[k].pc = "extract"
  /\ \E err \in ExtractErrors(calls[k].page) :
        error' = ErrorMessage(err, <<"Failed to parse PDF.">>)
  /\ calls' = [calls EXCEPT ![k].pc = "done", ![k].outcome = "extractError"]
  /\ rejected' = FALSE /\ UNCHANGED received
  /\ UNCHANGED <<messages, input, file, isLoading, requests, nextId, netUsed>>

\* lines 140-145 recording the failure in the store, as the catch block of
\* line 237 does
ExtractFail_failureTurn(k) ==
  /\ calls[k].pc = "extract"
  /\ \E err \in ExtractErrors(calls[k].page) :
        /\ error' = ErrorMessage(err, <<"Failed to parse PDF.">>)
        /\ messages' = Append(messages,
              FailureTurn(nextId, ErrorMessage(err, <<"Failed to parse PDF.">>)))
  /\ nextId' = nextId + 1
  /\ isLoading' = FALSE
  /\ calls' = [calls EXCEPT ![k].pc = "done", ![k].outcome = "extractError"]
  /\ rejected' = FALSE /\ UNCHANGED received
  /\ UNCHANGED <<input, file, requests, netUsed>>

\* parsePdf resolving with the text of the pages read so far when a page
\* fails, as it would with the try of line 104 inside the loop of line 107
ExtractFail_resolvesPartial(k) ==
  LET c == calls[k]
  IN  /\ c.pc = "extract"
      /\ rejected' = FALSE /\ UNCHANGED received
      /\ IF c.page = 0
         THEN /\ \E err \in ExtractErrors(0) :
                   error' = ErrorMessage(err, <<"Failed to parse PDF.">>)
              /\ isLoading' = FALSE
              /\ calls' = [calls EXCEPT ![k].pc = "done",
                                         ![k].outcome = "extractError"]
              /\ UNCHANGED <<messages, input, file, requests, nextId, netUsed>>
         ELSE /\ Dispatch(c, c.fullText)
              /\ calls' = [calls EXCEPT ![k] = Dispatched(c)]
              /\ UNCHANGED <<isLoading, error, netUsed>>

\* lines 140-145: parsePdf rejects
ExtractFail(k) ==
  /\ calls[k].pc = "extract"
  /\ \E err \in ExtractErrors(calls[k].page) :
        error' = ErrorMessage(err, <<"Failed to parse PDF.">>)
  /\ isLoading' = FALSE
  /\ calls' = [calls EXCEPT ![k].pc = "done", ![k].outcome = "extractError"]
  /\ rejected' = FALSE /\ UNCHANGED received
  /\ UNCHANGED <<messages, input, file, requests, nextId, netUsed>>

\* lines 234-240 without the setMessages of line 237
Catch_errorOnly(k, err, outcome) ==
  LET errorMessage == ErrorMessage(err, <<"An unknown error occurred.">>)
  IN  /\ error' = errorMessage
      /\ UNCHANGED <<messages, nextId>>
      /\ isLoading' = FALSE
      /\ calls' = [calls EXCEPT ![k].pc = "done", ![k].outcome = outcome]
      /\ received' = [received EXCEPT ![k] = <<>>]

\* lines 234-240 writing the failure into the assistant message of the
\* stream when there is one, instead of appending at line 237
Catch_replacesPartial(k, err, outcome) ==
  LET errorMessage == ErrorMessage(err, <<"An unknown error occurred.">>)
      id == calls[k].assistantMessageId
  IN  /\ error' = errorMessage
      /\ IF id # 0
         THEN /\ messages' =
                   [i \in 1..Len(messages) |->
                      IF messages[i].id = id
                      THEN FailureTurn(id, errorMessage) ELSE messages[i]]
              /\ nextId' = nextId
         ELSE /\ messages' = Append(messages, FailureTurn(nextId, errorMessage))
              /\ nextId' = nextId + 1
      /\ isLoading' = FALSE
      /\ calls' = [calls EXCEPT ![k].pc = "done", ![k].outcome = outcome]
      /\ received' = [received EXCEPT ![k] = <<>>]

\* lines 234-240: the catch block and the finally block
Catch(k, err, outcome) ==
  LET errorMessage == ErrorMessage(err, <<"An unknown error occurred.">>)
  IN  /\ error' = errorMessage
      /\ messages' = Append(messages, FailureTurn(nextId, errorMessage))
      /\ nextId' = nextId + 1
      /\ isLoading' = FALSE
      /\ calls' = [calls EXCEPT ![k].pc = "done", ![k].outcome = outcome]
      /\ received' = [received EXCEPT ![k] = <<>>]

\* line 191 without its test of response.ok
ResponseFailed_noBody(r) == ~r.hasBody

\* line 191
ResponseFailed(r) == ~r.ok \/ ~r.hasBody

\* a fetch has settled
Settled == IF netUsed < MaxNet THEN netUsed + 1 ELSE MaxNet

\* lines 185-199: fetch resolves
FetchResolve(k) ==
  /\ calls[k].pc = "fetch"
  /\ \E r \in Responses :
       IF ResponseFailed(r)
       THEN calls' = [calls EXCEPT ![k].pc = "errbody", ![k].response = r]
       ELSE calls' = [calls EXCEPT ![k].pc = "read", ![k].response = r,
                                   ![k].budget = MaxNet - Settled]
  /\ netUsed' = Settled
  /\ rejected' = FALSE /\ UNCHANGED received
  /\ UNCHANGED <<messages, input, file, isLoading, error, requests, nextId>>

\* line 185: fetch rejects
FetchReject(k) ==
  /\ calls[k].pc = "fetch"
  /\ Catch(k, Err(<<"Failed to fetch">>), "fetchError")
  /\ netUsed' = Settled
  /\ rejected' = FALSE
  /\ UNCHANGED <<input, file, requests>>

\* lines 192-193: response.json() resolves and line 193 throws, or it
\* rejects with a SyntaxError
ErrBody(k) ==
  LET r == calls[k].response
  IN  /\ calls[k].pc = "errbody"
      /\ Catch(k,
               IF r.errorBody.decodes THEN ApiError(r.status, r.errorBody)
               ELSE Err(<<"Unexpected end of JSON input">>),
               "transportError")
      /\ rejected' = FALSE
      /\ UNCHANGED <<input, file, requests, netUsed>>

\* lines 205-232: what the chunk value does to the state, st being the
\* state the loop ends in
Commit(k, value, st) ==
  /\ received' = [received EXCEPT ![k] = received[k] \o value]
  /\ netUsed' = netUsed + NewLines(value)
  /\ messages' = st.messages
  /\ nextId' = st.nextId
  /\ calls' = [calls EXCEPT
       ![k].aiResponseContent = st.aiResponseContent,
       ![k].assistantMessageId = st.assistantMessageId,
       ![k].delivered = st.delivered]

\* lines 202-232: reader.read() resolves with the next bytes of the body
ReadChunk(k) ==
  LET c == calls[k]
  IN  /\ c.pc = "read"
      /\ rejected' = FALSE
      /\ UNCHANGED <<input, file, isLoading, error, requests>>
      /\ \E value \in Reads[c.budget][received[k]] :
           Commit(k, value,
                  ProcessChunk(
                    StreamState(messages, c.aiResponseContent,
                                c.assistantMessageId, nextId, c.delivered),
                    value))

\* lines 202-203 and 238-240 with an empty assistant message appended
\* after the loop when the stream has created none
ReadDone_placeholderTurn(k) ==
  /\ calls[k].pc = "read"
  /\ rejected' = FALSE
  /\ UNCHANGED <<input, file, error, requests, netUsed>>
  /\ isLoading' = FALSE
  /\ received[k] \in Wires[calls[k].budget]
  /\ received' = [received EXCEPT ![k] = <<>>]
  /\ IF calls[k].assistantMessageId = 0
     THEN /\ messages' = Append(messages,
                [id |-> nextId, role |-> "assistant", content |-> <<>>])
          /\ nextId' = nextId + 1
     ELSE UNCHANGED <<messages, nextId>>
  /\ calls' = [calls EXCEPT ![k].pc = "done", ![k].outcome = "complete"]

\* lines 202-203 and 238-240: the body has ended, after a whole line
ReadDone(k) ==
  /\ calls[k].pc = "read"
  /\ rejected' = FALSE
  /\ UNCHANGED <<messages, input, file, error, requests, nextId, netUsed>>
  /\ isLoading' = FALSE
  /\ received[k] \in Wires[calls[k].budget]
  /\ received' = [received EXCEPT ![k] = <<>>]
  /\ calls' = [calls EXCEPT ![k].pc = "done", ![k].outcome = "complete"]

\* line 202: reader.read() rejects
ReadFail(k) ==
  /\ calls[k].pc = "read"
  /\ Catch(k, Err(<<"network error">>), "streamError")
  /\ rejected' = FALSE
  /\ UNCHANGED <<input, file, requests, netUsed>>

(* ------------------- the other handlers --------------------------------- *)

\* lines 82-91 without the test of the type at line 84
handleFileChange_anyType(f) ==
  /\ IF f # NoFile
     THEN file' = f /\ error' = NoError
     ELSE error' = <<"Please select a valid PDF file.">> /\ file' = NoFile
  /\ rejected' = FALSE /\ UNCHANGED received
  /\ UNCHANGED <<messages, input, isLoading, calls, requests, nextId, netUsed>>

\* lines 82-91: f is e.target.files?.[0], NoFile when the list is empty
handleFileChange(f) ==
  /\ IF f # NoFile /\ f.type = "application/pdf"
     THEN file' = f /\ error' = NoError
     ELSE error' = <<"Please select a valid PDF file.">> /\ file' = NoFile
  /\ rejected' = FALSE /\ UNCHANGED received
  /\ UNCHANGED <<messages, input, isLoading, calls, requests, nextId, netUsed>>

\* line 281: the button shown while a file is attached
RemoveFile ==
  /\ file # NoFile
  /\ file' = NoFile
  /\ rejected' = FALSE /\ UNCHANGED received
  /\ UNCHANGED <<messages, input, isLoading, error, calls, requests, nextId, netUsed>>

\* line 292: the text field, disabled while isLoading
SetInput(v) ==
  /\ ~isLoading
  /\ input' = v
  /\ rejected' = FALSE /\ UNCHANGED received
  /\ UNCHANGED <<messages, file, isLoading, error, calls, requests, nextId, netUsed>>

(* ------------------- specification -------------------------------------- *)

Next ==
  \/ Submit
  \/ \E k \in 1..Len(calls) : ExtractLoad(k)
  \/ \E k \in 1..Len(calls) : ExtractPage(k)
  \/ \E k \in 1..Len(calls) : ExtractFail(k)
  \/ \E k \in 1..Len(calls) : FetchResolve(k)
  \/ \E k \in 1..Len(calls) : FetchReject(k)
  \/ \E k \in 1..Len(calls) : ErrBody(k)
  \/ \E k \in 1..Len(calls) : ReadChunk(k)
  \/ \E k \in 1..Len(calls) : ReadDone(k)
  \/ \E k \in 1..Len(calls) : ReadFail(k)
  \/ \E f \in Files \cup {NoFile} : handleFileChange(f)
  \/ RemoveFile
  \/ \E v \in Inputs : SetInput(v)

Spec == Init /\ [][Next]_vars

\* Every await of a call settles: the promise it waits for resolves or
\* rejects, and the continuation runs.
Settles(k) ==
  /\ k \in 1..Len(calls)
  /\ \/ ExtractLoad(k)
     \/ ExtractPage(k)
     \/ ExtractFail(k)
     \/ FetchResolve(k)
     \/ FetchReject(k)
     \/ ErrBody(k)
     \/ ReadChunk(k)
     \/ ReadDone(k)
     \/ ReadFail(k)

FairSpec == Spec /\ \A k \in 1..MaxSubmits : WF_vars(Settles(k))

(* ------------------- properties ----------------------------------------- *)

\* the calls that have not returned
InFlight == {k \in 1..Len(calls) : calls[k].pc # "done"}

\* the calls whose record still holds their locals
Observable == {k \in 1..Len(calls) : calls[k].before # <<>>}

\* the user message of a call
UserTurn(c) ==
  [id |-> c.userId, role |-> "user", content |-> UserContent(c.input, c.file)]

RECURSIVE Concat(_)
Concat(frags) ==
  IF Len(frags) = 0 THEN <<>> ELSE Head(frags) \o Concat(Tail(frags))

\* C1: while a response body is read and after it has ended normally, if
\* the decoder has extracted the fragments f1..fn (n >= 1) from it, the
\* store is the store as it was before the submission, the user message,
\* and exactly one assistant message made by this stream, whose id is the
\* one id the stream generated and whose content is f1+...+fn in order.
C1_OneTurnConcatenation ==
  \A k \in Observable :
    LET c == calls[k]
    IN  (c.pc = "read" \/ c.outcome = "complete") /\ c.delivered # <<>>
        => /\ c.assistantMessageId # 0
           /\ messages = c.before \o
                << UserTurn(c),
                   [id |-> c.assistantMessageId, role |-> "assistant",
                    content |-> Concat(c.delivered)] >>

\* a stream that delivered two different fragments has ended normally
C1_Witness ==
  \E k \in Observable :
    /\ calls[k].outcome = "complete"
    /\ calls[k].delivered = << <<"x">>, <<"e^">> >>
    /\ messages[Len(messages)].content = <<"x", "e^">>

\* the calls that are reading a body and have created their assistant message
Active == {k \in InFlight : calls[k].pc = "read" /\ calls[k].assistantMessageId # 0}

\* C2: at most one call of handleSendMessage is past line 126 and has not
\* returned, and at most one assistant message is being extended.
C2_OneInFlight ==
  /\ Cardinality(InFlight) <= 1
  /\ Cardinality(Active) <= 1

\* a submit event arrived while a call was extending its assistant message,
\* and was turned away
C2_Witness ==
  /\ rejected
  /\ Cardinality(Active) = 1
  /\ isLoading

\* a data record whose body JSON.parse throws on
Malformed(line) ==
  /\ StartsWith(line, Prefix)
  /\ Trim(Substring(line, 6)) # <<>>
  /\ JSONParse(Trim(Substring(line, 6))).threw

WellFormed(line) == ~Malformed(line)

\* the store before the first read of the body of call c
StoreAtFetch(c) == c.before \o <<UserTurn(c)>>

\* C3: when the bytes received so far end with a whole line, the store is
\* what the decoder makes of these bytes arriving as one chunk, wherever
\* the chunks were cut.
C3_CarryOver ==
  \A k \in Observable :
    LET c == calls[k]
    IN  c.pc = "read" /\ received[k] \in Wires[c.budget]
        => messages =
             ProcessChunk(StreamState(StoreAtFetch(c), <<>>, 0, c.userId + 1, <<>>),
                          received[k]).messages

\* the bytes call k has read in this step
ChunkOf(k) == SubSeq(received'[k], Len(received[k]) + 1, Len(received'[k]))

\* what C4 says of a step in which call k has read the chunk of these lines
SkipsMalformed(k, lines) ==
  LET c == calls[k]
      st == ProcessLines(
              StreamState(messages, c.aiResponseContent,
                          c.assistantMessageId, nextId, c.delivered),
              SelectSeq(lines, WellFormed))
  IN  (\E i \in 1..Len(lines) : Malformed(lines[i]))
      => /\ messages' = st.messages
         /\ calls'[k].aiResponseContent = st.aiResponseContent
         /\ calls'[k].assistantMessageId = st.assistantMessageId
         /\ calls'[k].delivered = st.delivered
         /\ calls'[k].pc = "read"
         /\ error' = error
         /\ isLoading' = isLoading

\* C4: a chunk that holds malformed records leaves the store, the
\* accumulated text and the id of the assistant message as the same chunk
\* without these records leaves them: the records before and after them
\* are committed to the one assistant message, the error slot and the busy
\* flag are untouched, no failure message is appended, and the call goes on
\* to its next read.
C4_MalformedSkipped ==
  [][\A k \in 1..Len(calls) :
       (calls[k].pc = "read" /\ Len(calls') = Len(calls)
          /\ Len(received'[k]) > Len(received[k]))
       => SkipsMalformed(k, Split(TextDecode(ChunkOf(k))))]_vars

\* a body of a malformed record and then a valid one has been read, the
\* valid one is committed and nothing else has happened
C4_Witness ==
  \E k \in Observable :
    /\ calls[k].pc = "read"
    /\ received[k] =
         Prefix \o <<"{T:", "x", "\n">> \o Prefix \o <<"{T:", "x", ":T}", "\r", "\n">>
    /\ calls[k].delivered = << <<"x">> >>
    /\ messages[Len(messages)].content = <<"x">>
    /\ error = NoError
    /\ isLoading

\* C5: a call whose response had a non-success status ends as a transport
\* error, and the store is then the store as it was before the submission,
\* the user message, and one assistant message that reports the failure.
C5_TransportError ==
  \A k \in Observable :
    LET c == calls[k]
    IN  c.pc = "done" /\ c.request # 0 /\ c.response # NoResponse /\ ~c.response.ok
        => /\ c.outcome = "transportError"
           /\ Len(messages) = Len(c.before) + 2
           /\ SubSeq(messages, 1, Len(c.before) + 1) = StoreAtFetch(c)
           /\ messages[Len(messages)].role = "assistant"
           /\ messages[Len(messages)].id \notin {c.before[i].id : i \in 1..Len(c.before)} \cup {c.userId}
           /\ Len(messages[Len(messages)].content) >= 2
           /\ messages[Len(messages)].content[1] = "Sorry, something went wrong: "

\* a response of status 400 whose error body names the reason has been
\* reported
C5_Witness ==
  \E k \in Observable :
    /\ calls[k].outcome = "transportError"
    /\ calls[k].response.status = "400"
    /\ messages[Len(messages)].content =
         <<"Sorry, something went wrong: ", "API error: ", "400", " - ",
           "API key not valid">>
    /\ messages[Len(messages) - 1] = UserTurn(calls[k])

\* C6: the step in which the extraction of the attached document fails
\* leaves the store as it was when the submission started, dispatches no
\* request, puts a message into the error slot and clears the busy flag;
\* the call has appended no message and sent no request.
C6_ExtractionAbort ==
  [][\A k \in 1..Len(calls) :
       (calls[k].pc = "extract" /\ Len(calls') = Len(calls)
          /\ calls'[k].outcome = "extractError")
       => /\ messages' = messages
          /\ messages = calls[k].messages
          /\ requests' = requests
          /\ calls'[k].request = 0
          /\ calls'[k].userId = 0
          /\ error' # NoError
          /\ ~isLoading'
          /\ calls'[k].pc = "done"]_vars

\* the extraction of a document failed at its second page
C6_Witness ==
  \E k \in 1..Len(calls) :
    /\ calls[k].outcome = "extractError"
    /\ calls[k].page = 2
    /\ calls[k].file # NoFile
    /\ messages = calls[k].messages
    /\ error = <<"page failed">>
    /\ ~isLoading

\* C7: the body of every request is one entry for each message of the
\* store as it was just before the user message of the submission was
\* appended, in the order of the store and with its content, and then one
\* entry of role user with the new text; so it has one entry more than that
\* store had messages, and the user message just appended is not one of
\* the earlier entries.
C7_PreSubmissionHistory ==
  \A k \in Observable :
    LET c == calls[k]
        req == requests[c.request]
    IN  c.request # 0
        => /\ Len(req) = Len(c.before) + 1
           /\ \A i \in 1..Len(c.before) : req[i].text = c.before[i].content
           /\ req[Len(req)] =
                [role |-> "user", text |-> ApiRequestText(c.input, c.file, c.fullText)]
           /\ Len(messages) > Len(c.before)
           /\ SubSeq(messages, 1, Len(c.before)) = c.before
           /\ messages[Len(c.before) + 1] = UserTurn(c)

\* the second submission, with a document, has sent the greeting, the
\* first user message, the first answer and the new text
C7_Witness ==
  \E k \in Observable :
    /\ k = 2
    /\ calls[k].request = 2
    /\ calls[k].file # NoFile
    /\ Len(requests[2]) = 4
    /\ requests[2][3].text = <<"x">>

\* C8: a submit event that arrives while the busy flag is set changes
\* nothing: not the store, the error slot, the busy flag, the typed text,
\* the attached file, the calls in progress or the requests sent.
C8_BusySubmitIsNoOp ==
  [][(isLoading /\ Submit)
     => UNCHANGED <<messages, input, file, isLoading, error, calls, requests,
                    nextId, netUsed>>]_vars

\* a submit event was turned away while a request was awaited, although a
\* file was attached
C8_Witness ==
  /\ rejected
  /\ isLoading
  /\ file # NoFile
  /\ \E k \in InFlight : calls[k].pc = "fetch"

\* C9: the body of a request has one entry for each message the composer
\* was given, in the same order, and one more; an entry has a role and a
\* text and nothing else; the role is model exactly for an assistant
\* message and user exactly for a user message; the text is the content.
C9_Composer ==
  \A k \in Observable :
    LET c == calls[k]
        req == requests[c.request]
    IN  c.request # 0
        => /\ Len(req) = Len(c.messages) + 1
           /\ \A i \in 1..Len(req) : DOMAIN req[i] = {"role", "text"}
           /\ \A i \in 1..Len(c.messages) :
                /\ c.messages[i].role \in {"user", "assistant"}
                /\ req[i].role \in {"user", "model"}
                /\ (req[i].role = "model") <=> (c.messages[i].role = "assistant")
                /\ (req[i].role = "user") <=> (c.messages[i].role = "user")
                /\ req[i].text = c.messages[i].content
           /\ req[Len(req)].role = "user"

\* a request composed from messages of both roles
C9_Witness ==
  \E k \in Observable :
    /\ calls[k].request # 0
    /\ \E i, j \in 1..Len(calls[k].messages) :
         /\ calls[k].messages[i].role = "assistant"
         /\ calls[k].messages[j].role = "user"
         /\ requests[calls[k].request][i].role = "model"
         /\ requests[calls[k].request][j].role = "user"

\* C10: whenever the busy flag is set it is cleared later, given that every
\* await settles; and a submit event that arrives while the flag is clear,
\* with text or a file, is accepted.
C10_ReturnsToIdle ==
  /\ isLoading ~> ~isLoading
  /\ [](InFlight = {} => ~isLoading)
  /\ [][(~isLoading /\ ~(Trim(input) = <<>> /\ file = NoFile) /\ Submit)
        => isLoading' /\ Len(calls') = Len(calls) + 1]_vars

\* a second submission was accepted after the first had failed, and has
\* returned as well
C10_Witness ==
  /\ Len(calls) = 2
  /\ calls[1].outcome \in {"extractError", "fetchError", "transportError", "streamError"}
  /\ calls[2].pc = "done"
  /\ ~isLoading

\* call k returns in this step with one of the outcomes
Ends(k, outcomes) ==
  /\ k \in InFlight
  /\ calls'[k].pc = "done"
  /\ calls'[k].outcome \in outcomes

\* m is a message as line 237 builds it
IsFailureTurn(m) ==
  /\ m.role = "assistant"
  /\ Len(m.content) >= 2
  /\ m.content[1] = "Sorry, something went wrong: "

\* this step sets the error slot and appends one failure message
SurfacesAndRecords ==
  /\ error' # NoError
  /\ Len(messages') = Len(messages) + 1
  /\ SubSeq(messages', 1, Len(messages)) = messages
  /\ IsFailureTurn(messages'[Len(messages')])
  /\ messages'[Len(messages')].content = <<"Sorry, something went wrong: ">> \o error'

\* the submit event returns at line 126 because there is nothing to send
ValidationError == ~isLoading /\ Rejects(input, file, FALSE) /\ Submit

\* C11 as stated: every step in which a submission ends in an extraction
\* error, a transport error or a stream-read error sets the error slot and
\* appends a failure Turn to the store; a validation error appends none.
C11_EveryFatalErrorRecorded ==
  [][/\ \A k \in 1..Len(calls) :
          Ends(k, {"extractError", "fetchError", "transportError", "streamError"})
          => SurfacesAndRecords
     /\ ValidationError => messages' = messages]_vars

\* C11 amended: every step in which a submission fails after its user
\* Turn was appended (fetch rejected, transport error, stream-read error)
\* sets the error slot and appends one failure Turn carrying the same
\* message; a step in which extraction fails sets the error slot and leaves
\* the store as it is; a validation error changes neither.
C11_FatalErrorAfterUserTurnRecorded ==
  [][/\ \A k \in 1..Len(calls) :
          /\ Ends(k, {"fetchError", "transportError", "streamError"})
             => SurfacesAndRecords
          /\ Ends(k, {"extractError"})
             => error' # NoError /\ messages' = messages
     /\ ValidationError => messages' = messages /\ error' = error]_vars

\* a stream-read error has been surfaced and recorded, and an earlier
\* submission ended in an extraction error without a Turn
C11_Witness ==
  /\ Len(calls) = 2
  /\ calls[1].outcome = "extractError"
  /\ calls[2].outcome = "streamError"
  /\ error = <<"network error">>
  /\ IsFailureTurn(messages[Len(messages)])
  /\ Len(messages) = 3

\* C12: a submit with blank text and no file changes nothing: the store,
\* isLoading, the error slot, the pending input and file, the calls and the
\* requests sent stay as they are; a submit made while idle with blank text
\* and a file, or with text and no file, is accepted: isLoading becomes
\* true and a new call starts.
C12_Validation ==
  [][/\ (Trim(input) = <<>> /\ file = NoFile /\ Submit)
        => UNCHANGED <<messages, input, file, isLoading, error, calls,
                       requests, nextId, netUsed, received>>
     /\ (/\ ~isLoading
         /\ \/ Trim(input) = <<>> /\ file # NoFile
            \/ Trim(input) # <<>> /\ file = NoFile
         /\ Submit)
        => /\ isLoading'
           /\ Len(calls') = Len(calls) + 1
           /\ calls'[Len(calls')].pc \in {"extract", "fetch"}
           /\ calls'[Len(calls')].input = input
           /\ calls'[Len(calls')].file = file]_vars

\* a submit of whitespace without a file has just been rejected while idle,
\* with the error slot set, after a submit of a file without text was
\* accepted and completed
C12_Witness ==
  /\ rejected
  /\ ~isLoading
  /\ input = <<" ">>
  /\ file = NoFile
  /\ error # NoError
  /\ Len(calls) = 1
  /\ calls[1].outcome = "complete"
  /\ calls[1].file # NoFile
  /\ Trim(calls[1].input) = <<>>

\* the fragments call k commits in this step, joined
Committed(k) ==
  Concat(SubSeq(calls'[k].delivered, Len(calls[k].delivered) + 1,
                Len(calls'[k].delivered)))

\* C13: in every step the store does not get shorter and every message
\* keeps its position, id and role; the content of a message changes only
\* if it is the assistant message of the one call that is reading its
\* response body, and then the new content is the old content followed by
\* what the step committed, the store keeps its length and every other
\* message is unchanged.
C13_AppendOnly ==
  [][/\ Len(messages') >= Len(messages)
     /\ \A i \in 1..Len(messages) :
          /\ messages'[i].id = messages[i].id
          /\ messages'[i].role = messages[i].role
          /\ messages'[i].content # messages[i].content
             => /\ messages[i].role = "assistant"
                /\ \E k \in InFlight :
                      /\ InFlight = {k}
                      /\ calls[k].pc = "read"
                      /\ calls[k].assistantMessageId = messages[i].id
                      /\ Committed(k) # <<>>
                      /\ messages'[i].content = messages[i].content \o Committed(k)
                /\ Len(messages') = Len(messages)
                /\ \A j \in 1..Len(messages) :
                      j # i => messages'[j] = messages[j]]_vars

\* the assistant message of a body that is being read has been extended
\* by a second fragment, behind the greeting and the user message
C13_Witness ==
  \E k \in InFlight :
    /\ calls[k].pc = "read"
    /\ Len(calls[k].delivered) = 2
    /\ Len(messages) = 3
    /\ messages[1] = Greeting
    /\ messages[2].role = "user"
    /\ messages[3].id = calls[k].assistantMessageId
    /\ Len(messages[3].content) = 2

\* the text the failure message of a response r is to carry: the message
\* the remote side reported when the error body decodes and has one, else a
\* text made from the status
TransportErrorText(r) ==
  <<"API error: ", r.status, " - ">>
  \o (IF r.errorBody.decodes /\ r.errorBody.message # <<>>
      THEN r.errorBody.message
      ELSE <<"Unknown error">>)

\* C14: a call whose response was not ok or had no body has ended in a
\* transport error, and the message it left names the status and carries
\* the reported error message when the error body decodes and has one, and
\* a generic text otherwise.
C14_TransportErrorMessage ==
  \A k \in Observable :
    LET c == calls[k]
    IN  c.pc = "done" /\ c.response # NoResponse /\ ResponseFailed(c.response)
        => /\ c.outcome = "transportError"
           /\ messages[Len(messages)].content =
                <<"Sorry, something went wrong: ">> \o TransportErrorText(c.response)

\* the calls that have appended their user message
Sent == {k \in 1..Len(calls) : calls[k].userId # 0}

\* where the message with this id is in the store, 0 when it is not there
Position(id) ==
  IF \E p \in 1..Len(messages) : messages[p].id = id
  THEN CHOOSE p \in 1..Len(messages) : messages[p].id = id
  ELSE 0

\* the messages this step appends
Appended == SubSeq(messages', Len(messages) + 1, Len(messages'))

\* a step that appends a user message is the step that hands the request
\* of the same call to fetch, and the call has no assistant message then
UserTurnThenRequest ==
  \A n \in 1..Len(Appended) :
    Appended[n].role = "user"
    => /\ Len(Appended) = 1
       /\ Len(requests') = Len(requests) + 1
       /\ \E k \in 1..Len(calls') :
             /\ calls'[k].pc = "fetch"
             /\ calls'[k].userId = Appended[n].id
             /\ calls'[k].request = Len(requests')
             /\ calls'[k].assistantMessageId = 0

\* a step that appends an assistant message is a step of a call in flight
\* whose request has been sent and whose user message is the last user
\* message of the store
RequestThenAssistantTurn ==
  \A n \in 1..Len(Appended) :
    Appended[n].role = "assistant"
    => \E k \in InFlight :
         /\ calls[k].request \in 1..Len(requests)
         /\ calls[k].pc \in {"fetch", "errbody", "read"}
         /\ Position(calls[k].userId) > 0
         /\ \A q \in 1..Len(messages) :
               q > Position(calls[k].userId) => messages[q].role = "assistant"
         /\ \/ calls'[k].assistantMessageId = Appended[n].id
            \/ calls'[k].pc = "done" /\ IsFailureTurn(Appended[n])

\* in the store the user messages stand in the order of their calls, and
\* the streamed assistant message of a call stands behind the call's user
\* message and before the user message of every later call
OrderedInStore ==
  \A k \in Sent :
    /\ Position(calls[k].userId) > 0
    /\ messages[Position(calls[k].userId)].role = "user"
    /\ calls[k].request \in 1..Len(requests)
    /\ calls[k].assistantMessageId # 0
       => /\ Position(calls[k].assistantMessageId) > Position(calls[k].userId)
          /\ messages[Position(calls[k].assistantMessageId)].role = "assistant"
    /\ \A j \in Sent :
          j > k => /\ Position(calls[k].userId) < Position(calls[j].userId)
                   /\ Position(calls[k].assistantMessageId) < Position(calls[j].userId)

\* C15: within a submission the user message is appended before (with)
\* the request is handed to fetch, and every assistant message of the
\* submission, streamed or failure, is appended after that; so in the store
\* the assistant messages of a submission stand behind its user message and
\* before the user message of any later submission.
C15_StageOrder ==
  /\ [][UserTurnThenRequest /\ RequestThenAssistantTurn]_vars
  /\ []OrderedInStore

\* two submissions have each left a user message and an assistant message:
\* the first a streamed one, the second a failure message
C15_Witness ==
  /\ Len(calls) = 2
  /\ Sent = {1, 2}
  /\ calls[1].assistantMessageId # 0
  /\ calls[2].pc = "done"
  /\ Len(messages) = 5
  /\ Position(calls[1].userId) = 2
  /\ Position(calls[1].assistantMessageId) = 3
  /\ Position(calls[2].userId) = 4
  /\ IsFailureTurn(messages[5])

\* the line starts with the prefix, what follows is not blank and parses,
\* and the parsed record has a text part that is not empty
CarriesText(line) ==
  /\ StartsWith(line, Prefix)
  /\ Trim(Substring(line, 6)) # <<>>
  /\ ~JSONParse(Trim(Substring(line, 6))).threw
  /\ JSONParse(Trim(Substring(line, 6))).textPart # <<>>

\* the text parts of the lines that carry one, in order
Fragments(lines) ==
  LET records == SelectSeq(lines, CarriesText)
  IN  [i \in 1..Len(records) |-> JSONParse(Trim(Substring(records[i], 6))).textPart]

\* what C16 says of a step in which call k has read the chunk of these lines
IgnoresOtherLines(k, lines) ==
  LET c == calls[k]
      frs == Fragments(lines)
  IN  /\ calls'[k].pc = "read"
      /\ error' = error
      /\ isLoading' = isLoading
      /\ calls'[k].delivered = c.delivered \o frs
      /\ calls'[k].aiResponseContent = c.aiResponseContent \o Concat(frs)
      /\ frs = <<>>
         => /\ messages' = messages
            /\ calls'[k].assistantMessageId = c.assistantMessageId
            /\ nextId' = nextId
      /\ frs # <<>> => messages' # messages

\* C16: a chunk changes the store only through its lines that start with
\* the prefix, have a body that is not blank and parses, and hold a text
\* part that is not empty; every other line (no prefix, empty body, no text
\* path, empty text, not JSON) leaves the store, the accumulated text and
\* the id of the assistant message as they are, sets no error, and the call
\* goes on reading.
C16_LineFilter ==
  [][\A k \in 1..Len(calls) :
       (calls[k].pc = "read" /\ Len(calls') = Len(calls)
          /\ Len(received'[k]) > Len(received[k]))
       => IgnoresOtherLines(k, Split(TextDecode(ChunkOf(k))))]_vars

\* a body of a record without a text part and a record with an empty
\* body has been read and nothing has changed
C16_Witness ==
  \E k \in Observable :
    /\ calls[k].pc = "read"
    /\ received[k] = Prefix \o <<"{M}", "\n">> \o Prefix \o <<"\n">>
    /\ calls[k].delivered = <<>>
    /\ calls[k].assistantMessageId = 0
    /\ messages = StoreAtFetch(calls[k])
    /\ error = NoError
    /\ isLoading

\* the text of one page: its items with one space between neighbours
PageText(items) ==
  Concat([i \in 1..(2 * Len(items) - 1) |->
            IF i % 2 = 1 THEN items[(i + 1) \div 2] ELSE <<" ">>])

\* the text of the pages in ascending order, each followed by one newline
RECURSIVE DocumentText(_)
DocumentText(pages) ==
  IF Len(pages) = 0 THEN <<>>
  ELSE DocumentText(SubSeq(pages, 1, Len(pages) - 1))
       \o PageText(pages[Len(pages)]) \o <<"\n">>

\* while parsePdf runs the text gathered is that of the pages before the
\* current one; once the call has gone on, the text it got and sent is the
\* text of all pages
ExtractsWholeDocument ==
  \A k \in 1..Len(calls) :
    LET c == calls[k]
    IN  /\ c.pc = "extract" /\ c.page >= 1
           => /\ c.page <= Len(c.file.pages)
              /\ c.fullText = DocumentText(SubSeq(c.file.pages, 1, c.page - 1))
        /\ k \in Observable /\ c.file # NoFile
           => /\ c.fullText = DocumentText(c.file.pages)
              /\ requests[c.request][Len(requests[c.request])].text =
                   Trim(c.input)
                   \o <<"\n\n--- Content from ", c.file.name, " ---\n">>
                   \o DocumentText(c.file.pages)

\* a step in which the extraction of call k fails ends the call: no page
\* is read after it, nothing is sent and the store is unchanged
ExtractionFailsWhole ==
  \A k \in 1..Len(calls) :
    (calls[k].pc = "extract" /\ calls'[k].pc # "extract"
       /\ ~(calls[k].page = Len(calls[k].file.pages) /\ calls'[k].pc = "fetch"))
    => /\ calls'[k].pc = "done"
       /\ calls'[k].outcome = "extractError"
       /\ calls'[k].page = calls[k].page
       /\ calls'[k].request = 0
       /\ requests' = requests
       /\ messages' = messages

\* C17: extraction gives the submission the complete text or an error: on
\* success the text is, for the pages in ascending order, the page's items
\* joined by single spaces and followed by one newline; when loading or a
\* page fails, the extraction fails as a whole, no later page is read and
\* no text reaches the submission.
C17_ExtractionAllOrNothing ==
  /\ []ExtractsWholeDocument
  /\ [][ExtractionFailsWhole]_vars

\* a submission has got the text of a document of two pages, the first of
\* two items
C17_Witness ==
  \E k \in Observable :
    /\ calls[k].pc = "fetch"
    /\ Len(calls[k].file.pages) = 2
    /\ calls[k].fullText = <<"p", " ", "q", "\n", "r", "\n">>

\* the attachment is absent or a PDF, and so is the file of every call
OnlyDocumentsAttached ==
  /\ file = NoFile \/ file.type = "application/pdf"
  /\ \A k \in 1..Len(calls) :
        /\ calls[k].file = NoFile \/ calls[k].file.type = "application/pdf"
        /\ calls[k].pc = "extract" => calls[k].file.type = "application/pdf"

\* the file picker hands over a file that is no PDF, or none
SelectsOtherType ==
  \E f \in Files \cup {NoFile} :
    f.type # "application/pdf" /\ handleFileChange(f)

\* C18: in every state the attachment is absent or of type
\* application/pdf, so parsePdf only ever runs on a PDF; selecting a file
\* of another type leaves no attachment and sets the error slot.
C18_MimeFilter ==
  /\ []OnlyDocumentsAttached
  /\ [][SelectsOtherType
         => file' = NoFile /\ error' = <<"Please select a valid PDF file.">>]_vars

\* while the PDF of a submission is extracted, a selection that was no PDF
\* has left no attachment and an error
C18_Witness ==
  /\ file = NoFile
  /\ error = <<"Please select a valid PDF file.">>
  /\ \E k \in InFlight :
        calls[k].pc = "extract" /\ calls[k].file.type = "application/pdf"

\* the ids of the messages in the store
Ids == {messages[i].id : i \in 1..Len(messages)}

\* the assistant message call c has streamed into
PartialTurn(c) ==
  [id |-> c.assistantMessageId, role |-> "assistant",
   content |-> Concat(c.delivered)]

\* after a read of call k failed with fragments committed, the store is
\* the store before the submission, the user message, the partial assistant
\* message and one failure message
PartialThenFailure ==
  \A k \in Observable :
    LET c == calls[k]
    IN  c.outcome = "streamError" /\ c.delivered # <<>>
        => /\ Len(messages) = Len(c.before) + 3
           /\ SubSeq(messages, 1, Len(messages) - 1) =
                c.before \o <<UserTurn(c), PartialTurn(c)>>
           /\ IsFailureTurn(messages[Len(messages)])
           /\ \A i \in 1..(Len(messages) - 1) :
                 messages[i].id # messages[Len(messages)].id

\* the step in which a read of call k fails with fragments committed
\* leaves the partial assistant message as it is, appends a failure message
\* with a new id behind it and sets the error slot
KeepsPartialOnReadFailure ==
  \A k \in 1..Len(calls) :
    Ends(k, {"streamError"}) /\ calls[k].delivered # <<>>
    => /\ messages[Len(messages)] = PartialTurn(calls[k])
       /\ SurfacesAndRecords
       /\ messages'[Len(messages')].id \notin Ids
       /\ Cardinality({i \in 1..Len(messages') :
                         /\ i > Position(calls[k].userId)
                         /\ messages'[i].role = "assistant"}) = 2

\* C19: when reader.read() rejects after at least one fragment was
\* committed, the assistant message streamed so far stays in the store
\* with the content accumulated so far, a failure message with a fresh id is
\* appended after it, the submission has left exactly two assistant
\* messages, and the error slot is set.
C19_PartialTurnKept ==
  /\ []PartialThenFailure
  /\ [][KeepsPartialOnReadFailure]_vars

\* a read has failed after one fragment: the store ends with the partial
\* message and the failure message
C19_Witness ==
  \E k \in Observable :
    /\ calls[k].outcome = "streamError"
    /\ calls[k].delivered = << <<"x">> >>
    /\ Len(messages) = 4
    /\ messages[3].content = <<"x">>
    /\ messages[4].content = <<"Sorry, something went wrong: ", "network error">>
    /\ error = <<"network error">>
    /\ ~isLoading

\* the step in which the body of call k ends and no fragment was committed
EndsEmpty(k) == Ends(k, {"complete"}) /\ calls[k].delivered = <<>>

\* after that step the component is idle and the store is the store before
\* the submission and the user message, which is its last message
NoTurnForEmptyStream(k) ==
  /\ ~isLoading'
  /\ calls'[k].assistantMessageId = 0
  /\ messages' = StoreAtFetch(calls[k])
  /\ messages'[Len(messages')].id = calls[k].userId
  /\ Len(messages') = Len(calls[k].before) + 1

\* C20 as stated: when a body ends normally and no fragment was committed,
\* the component becomes idle with the user message of the submission last
\* in the store, the store one message longer than before the submission,
\* and the error slot empty.
C20_EmptyStreamNoTurn ==
  [][\A k \in 1..Len(calls) :
       EndsEmpty(k) => NoTurnForEmptyStream(k) /\ error' = NoError]_vars

\* C20 amended: as stated, but of the error slot: the end of the stream
\* leaves it as it is, and what it holds then is nothing or the message of
\* a file selection made while the submission ran.
C20_EmptyStreamNoTurnNoError ==
  [][\A k \in 1..Len(calls) :
       EndsEmpty(k)
       => /\ NoTurnForEmptyStream(k)
          /\ error' = error
          /\ error' \in {NoError, <<"Please select a valid PDF file.">>}]_vars

\* a body of two lines without a fragment has ended: the user message is
\* the last message and the error slot is empty
C20_Witness ==
  /\ Len(calls) = 1
  /\ calls[1].outcome = "complete"
  /\ calls[1].delivered = <<>>
  /\ netUsed = 3
  /\ ~isLoading
  /\ messages = StoreAtFetch(calls[1])
  /\ error = NoError

====
